---- MODULE Spec2Model ----
(***************************************************************************)
(* Package iothub (github.com/mtraver/iothub): the identity/topic          *)
(* derivation of a Device, DeviceIDFromCert, and Device.NewClient with its *)
(* option functions.  Strings are TLA+ strings; fmt.Sprintf is modelled by *)
(* substitution of its verbs; files and the CA stream are modelled by the  *)
(* sequence of PEM blocks encoding/pem finds in their bytes.               *)
(***************************************************************************)
EXTENDS Integers, Sequences, FiniteSets, TLC

VARIABLES
  d,         \* the Device the methods are called on (fields of the struct)
  caCerts,   \* the io.Reader handed to NewClient: what is left to read, and whether reads fail
  pc,        \* position of the NewClient call: "idle", a line label, or "returned"
  options,   \* the option functions of the running NewClient call, in the order given
  i,         \* index of the next option of the loop at line 113
  pemCerts,  \* local pemCerts of NewClient
  certpool,  \* local certpool of NewClient
  cert,      \* local cert of NewClient (zero or one tls.Certificate)
  opts,      \* local opts of NewClient (zero or one *mqtt.ClientOptions)
  log,       \* the calls NewClient has made since it was entered, in order
  result,    \* what the last NewClient call returned: (client, err)
  entry,     \* the Device and the reader as they were when NewClient was entered
  idres,     \* what the last DeviceIDFromCert call got and returned: (certPath, id, err)
  first,     \* the first derivation call of the run: (op, val)
  last       \* the latest derivation call after the first: (op, val)

vars == <<d, caCerts, pc, options, i, pemCerts, certpool, cert, opts, log, result,
          entry, idres, first, last>>

(***************************************************************************)
(* Bounds                                                                  *)
(***************************************************************************)
MaxOptions == 2

(***************************************************************************)
(* fmt.Sprintf / fmt.Errorf / errors                                       *)
(***************************************************************************)
Digit(n) ==
  CASE n = 0 -> "0" [] n = 1 -> "1" [] n = 2 -> "2" [] n = 3 -> "3" [] n = 4 -> "4"
    [] n = 5 -> "5" [] n = 6 -> "6" [] n = 7 -> "7" [] n = 8 -> "8" [] n = 9 -> "9"

RECURSIVE Itoa(_)
Itoa(n) == IF n < 10 THEN Digit(n) ELSE Itoa(n \div 10) \o Digit(n % 10)

Verbs == {"%s", "%v", "%d", "%w"}

FormatArg(verb, arg) == IF verb = "%d" THEN Itoa(arg) ELSE arg

\* A format is the sequence of its literal pieces and verbs; each verb takes
\* the next argument.
RECURSIVE Sprintf(_, _)
Sprintf(format, args) ==
  IF format = <<>> THEN ""
  ELSE IF Head(format) \in Verbs
       THEN FormatArg(Head(format), Head(args)) \o Sprintf(Tail(format), Tail(args))
       ELSE Head(format) \o Sprintf(Tail(format), args)

RECURSIVE FormatString(_)
FormatString(format) ==
  IF format = <<>> THEN "" ELSE Head(format) \o FormatString(Tail(format))

\* An error value: the format it was made from, its message, and the
\* errors it wraps (what errors.Is finds below it).  Nil is the nil error.
Nil == [fmt |-> "", msg |-> "", is |-> {}]

\* fmt.Errorf without %w: the arguments are formatted into the message and
\* nothing is wrapped.
Errorf(format, args) ==
  [fmt |-> FormatString(format), msg |-> Sprintf(format, args), is |-> {}]

\* fmt.Errorf whose last verb is %w: err is formatted by its message and wrapped.
ErrorfW(format, err) ==
  [fmt |-> FormatString(format), msg |-> Sprintf(format, <<err.msg>>),
   is |-> {err.fmt} \cup err.is]

(***************************************************************************)
(* The file system and the PEM / X.509 material in it                      *)
(***************************************************************************)
CertDER(cn, key) == [kind |-> "cert", cn |-> cn, key |-> key]
KeyDER(key) == [kind |-> "key", cn |-> "", key |-> key]
JunkDER == [kind |-> "junk", cn |-> "", key |-> ""]

Block(type, bytes) == [Type |-> type, Bytes |-> bytes]

File(exists, readable, blocks) ==
  [exists |-> exists, readable |-> readable, blocks |-> blocks]

Paths == {"missing.pem", "locked.pem", "notes.txt", "junk.pem", "my-device.pem",
          "my-device.x509", "other.x509", "bundle.pem"}

files ==
  [p \in Paths |->
     CASE p = "missing.pem" -> File(FALSE, FALSE, <<>>)
       [] p = "locked.pem" -> File(TRUE, FALSE, <<Block("CERTIFICATE", CertDER("dev-1", "k1"))>>)
       [] p = "notes.txt" -> File(TRUE, TRUE, <<>>)
       [] p = "junk.pem" -> File(TRUE, TRUE, <<Block("CERTIFICATE", JunkDER)>>)
       [] p = "my-device.pem" -> File(TRUE, TRUE, <<Block("RSA PRIVATE KEY", KeyDER("k1"))>>)
       [] p = "my-device.x509" -> File(TRUE, TRUE, <<Block("CERTIFICATE", CertDER("dev-1", "k1"))>>)
       [] p = "other.x509" -> File(TRUE, TRUE, <<Block("CERTIFICATE", CertDER("foo", "k2"))>>)
       [] p = "bundle.pem" -> File(TRUE, TRUE, <<Block("RSA PRIVATE KEY", KeyDER("k1")),
                                                Block("CERTIFICATE", CertDER("dev-1", "k1"))>>)]

\* ioutil.ReadFile / os.ReadFile
ReadFile(path) ==
  IF ~files[path].exists
  THEN [data |-> <<>>,
        err |-> [fmt |-> "open %s: no such file or directory",
                 msg |-> Sprintf(<<"open ", "%s", ": no such file or directory">>, <<path>>),
                 is |-> {"fs.ErrNotExist"}]]
  ELSE IF ~files[path].readable
  THEN [data |-> <<>>,
        err |-> [fmt |-> "open %s: permission denied",
                 msg |-> Sprintf(<<"open ", "%s", ": permission denied">>, <<path>>),
                 is |-> {"fs.ErrPermission"}]]
  ELSE [data |-> files[path].blocks, err |-> Nil]

IsNotExist(err) == "fs.ErrNotExist" \in err.is

\* pem.Decode: the first PEM block of the data (none: the empty sequence) and the rest.
PemDecode(data) ==
  IF data = <<>> THEN [block |-> <<>>, rest |-> <<>>]
  ELSE [block |-> <<Head(data)>>, rest |-> Tail(data)]

\* x509.ParseCertificate
ParseCertificate(der) ==
  IF der.kind = "cert"
  THEN [cert |-> <<der>>, err |-> Nil]
  ELSE [cert |-> <<>>, err |-> Errorf(<<"x509: malformed certificate">>, <<>>)]

\* (*x509.CertPool).AppendCertsFromPEM: every CERTIFICATE block that parses
\* is added to the pool; blocks of another type or that do not parse are
\* skipped.  ok is whether any certificate was added.
RECURSIVE AppendedCerts(_)
AppendedCerts(data) ==
  IF data = <<>> THEN <<>>
  ELSE LET block == PemDecode(data).block[1]
           rest == PemDecode(data).rest
       IN IF block.Type = "CERTIFICATE" /\ ParseCertificate(block.Bytes).err = Nil
          THEN <<block.Bytes>> \o AppendedCerts(rest)
          ELSE AppendedCerts(rest)

AppendCertsFromPEM(pool, data) ==
  [pool |-> pool \o AppendedCerts(data), ok |-> AppendedCerts(data) # <<>>]

IsCertificateBlock(b) == b.Type = "CERTIFICATE"
IsPrivateKeyBlock(b) == b.Type \in {"PRIVATE KEY", "RSA PRIVATE KEY", "EC PRIVATE KEY"}

\* tls.X509KeyPair: the CERTIFICATE blocks of the certificate input, the
\* first private key block of the key input, the leaf parsed, the key
\* parsed, and the key matched against the leaf's public key.
X509KeyPair(certPEM, keyPEM) ==
  LET certs == SelectSeq(certPEM, IsCertificateBlock)
      keys == SelectSeq(keyPEM, IsPrivateKeyBlock)
      fail(m) == [cert |-> <<>>, err |-> Errorf(<<m>>, <<>>)]
  IN IF certs = <<>>
     THEN IF certPEM = <<>>
          THEN fail("tls: failed to find any PEM data in certificate input")
          ELSE fail("tls: failed to find \"CERTIFICATE\" PEM block in certificate input")
     ELSE IF keys = <<>>
     THEN IF keyPEM = <<>>
          THEN fail("tls: failed to find any PEM data in key input")
          ELSE fail("tls: failed to find PEM block with type ending in \"PRIVATE KEY\" in key input")
     ELSE IF ParseCertificate(certs[1].Bytes).err # Nil
     THEN [cert |-> <<>>, err |-> ParseCertificate(certs[1].Bytes).err]
     ELSE IF keys[1].Bytes.kind # "key"
     THEN fail("tls: failed to parse private key")
     ELSE IF keys[1].Bytes.key # certs[1].Bytes.key
     THEN fail("tls: private key does not match public key")
     ELSE [cert |-> <<[Certificate |-> certs[1].Bytes, PrivateKey |-> keys[1].Bytes]>>,
           err |-> Nil]

\* tls.LoadX509KeyPair: both files are read (the certificate first), then paired.
LoadX509KeyPair(certFile, keyFile) ==
  IF ReadFile(certFile).err # Nil THEN [cert |-> <<>>, err |-> ReadFile(certFile).err]
  ELSE IF ReadFile(keyFile).err # Nil THEN [cert |-> <<>>, err |-> ReadFile(keyFile).err]
  ELSE X509KeyPair(ReadFile(certFile).data, ReadFile(keyFile).data)

\* ioutil.ReadAll on the CA reader: everything left in it, and the reader at
\* its end; a reader whose Read fails gives the error and no data.
ReadAll(r) ==
  IF r.fails
  THEN [data |-> <<>>, err |-> Errorf(<<"read: file already closed">>, <<>>), reader |-> r]
  ELSE [data |-> r.data, err |-> Nil, reader |-> [r EXCEPT !.data = <<>>]]

(***************************************************************************)
(* DeviceIDFromCert                                                        *)
(***************************************************************************)
\* DeviceIDFromCert without the test of the block's type at line 33.
DeviceIDFromCertAnyBlock(certPath) ==
  LET read == ReadFile(certPath)
      block == PemDecode(read.data).block
  IN IF read.err # Nil
     THEN IF IsNotExist(read.err)
          THEN [id |-> "",
                err |-> Errorf(<<"iothub: cert file does not exist: ", "%v">>, <<certPath>>)]
          ELSE [id |-> "",
                err |-> Errorf(<<"iothub: failed to read cert: ", "%v">>, <<read.err.msg>>)]
     ELSE IF block = <<>>
     THEN [id |-> "", err |-> Errorf(<<"iothub: failed to decode PEM certificate">>, <<>>)]
     ELSE IF ParseCertificate(block[1].Bytes).err # Nil
     THEN [id |-> "", err |-> ParseCertificate(block[1].Bytes).err]
     ELSE [id |-> ParseCertificate(block[1].Bytes).cert[1].cn, err |-> Nil]

DeviceIDFromCert(certPath) ==
  LET read == ReadFile(certPath)
      block == PemDecode(read.data).block
  IN IF read.err # Nil
     THEN IF IsNotExist(read.err)
          THEN [id |-> "",
                err |-> Errorf(<<"iothub: cert file does not exist: ", "%v">>, <<certPath>>)]
          ELSE [id |-> "",
                err |-> Errorf(<<"iothub: failed to read cert: ", "%v">>, <<read.err.msg>>)]
     ELSE IF block = <<>> \/ block[1].Type # "CERTIFICATE"
     THEN [id |-> "", err |-> Errorf(<<"iothub: failed to decode PEM certificate">>, <<>>)]
     ELSE IF ParseCertificate(block[1].Bytes).err # Nil
     THEN [id |-> "", err |-> ParseCertificate(block[1].Bytes).err]
     ELSE [id |-> ParseCertificate(block[1].Bytes).cert[1].cn, err |-> Nil]

(***************************************************************************)
(* MQTTBroker and the derivations of a Device                              *)
(***************************************************************************)
azureDevicesEndpoint == "azure-devices.net"

URL(b) == Sprintf(<<"tls://", "%s", ":", "%d">>, <<b.Host, b.Port>>)

String(b) == URL(b)

\* Broker with the port of MQTT without TLS.
BrokerPlainPort(dev) ==
  [Host |-> Sprintf(<<"%s", ".", "%s">>, <<dev.HubName, azureDevicesEndpoint>>),
   Port |-> 1883]

Broker(dev) ==
  [Host |-> Sprintf(<<"%s", ".", "%s">>, <<dev.HubName, azureDevicesEndpoint>>),
   Port |-> 8883]

ClientID(dev) == dev.DeviceID

\* Username with the API version the IoT Hub documentation recommends.
UsernameWithAPIVersion(dev) ==
  Sprintf(<<"%s", ".", "%s", "/", "%s", "/?api-version=2021-04-12">>,
          <<dev.HubName, azureDevicesEndpoint, dev.DeviceID>>)

Username(dev) ==
  Sprintf(<<"%s", ".", "%s", "/", "%s">>, <<dev.HubName, azureDevicesEndpoint, dev.DeviceID>>)

\* CommandTopic formatted from the hub's name instead of the device's ID.
CommandTopicOfHub(dev) ==
  Sprintf(<<"/devices/", "%v", "/messages/devicebound/#">>, <<dev.HubName>>)

CommandTopic(dev) ==
  Sprintf(<<"/devices/", "%v", "/messages/devicebound/#">>, <<dev.DeviceID>>)

TelemetryTopic(dev) ==
  Sprintf(<<"/devices/", "%v", "/messages/events">>, <<dev.DeviceID>>)

(***************************************************************************)
(* mqtt.ClientOptions, the option functions, and the mqtt client           *)
(***************************************************************************)
NewClientOptions == [Servers |-> <<>>, ClientID |-> "", Username |-> "", TLSConfig |-> <<>>]

AddBroker(o, server) == [o EXCEPT !.Servers = Append(@, server)]
SetClientID(o, id) == [o EXCEPT !.ClientID = id]
SetUsername(o, u) == [o EXCEPT !.Username = u]
SetTLSConfig(o, t) == [o EXCEPT !.TLSConfig = <<t>>]

MqttNewClient(o) == [options |-> o]

\* The option functions a caller may pass, func(*Device, *mqtt.ClientOptions) error:
\* one that overrides a default, one whose effect depends on what it finds
\* in the options, one that writes the Device it is handed, one that fails.
OptionKinds == {"SetUsername", "AppendAPIVersion", "Rename", "Fail"}

ApplyOption(option, dev, o) ==
  CASE option = "SetUsername" ->
         [d |-> dev, opts |-> SetUsername(o, "override"), err |-> Nil]
    [] option = "AppendAPIVersion" ->
         [d |-> dev,
          opts |-> SetUsername(o, Sprintf(<<"%s", "/?api-version=2021-04-12">>, <<o.Username>>)),
          err |-> Nil]
    [] option = "Rename" ->
         [d |-> [dev EXCEPT !.DeviceID = "renamed"], opts |-> o, err |-> Nil]
    [] option = "Fail" ->
         [d |-> dev, opts |-> o, err |-> Errorf(<<"option failed">>, <<>>)]

RECURSIVE SeqsUpTo(_, _)
SeqsUpTo(S, n) ==
  IF n = 0 THEN {<<>>}
  ELSE SeqsUpTo(S, n - 1) \cup {Append(s, x) : s \in SeqsUpTo(S, n - 1), x \in S}

OptionLists == SeqsUpTo(OptionKinds, MaxOptions)

(***************************************************************************)
(* Device.NewClient, one action per fallible step                          *)
(***************************************************************************)
Event(call, arg) == [call |-> call, arg |-> arg]

NoResult == [client |-> <<>>, err |-> Nil]

\* return client, err: the locals of the call are gone.
Return(client, err) ==
  /\ pc' = "returned"
  /\ result' = [client |-> client, err |-> err]
  /\ pemCerts' = <<>>
  /\ certpool' = <<>>
  /\ cert' = <<>>
  /\ opts' = <<>>
  /\ i' = 0

\* d.NewClient(caCerts, options...) is entered.
NewClientCall(os) ==
  /\ pc \in {"idle", "returned"}
  /\ pc' = "L82"
  /\ options' = os
  /\ entry' = [d |-> d, caCerts |-> caCerts]
  /\ log' = <<>>
  /\ result' = NoResult
  /\ UNCHANGED <<d, caCerts, i, pemCerts, certpool, cert, opts, idres, first, last>>

\* ReadCACerts without the check of err at line 83.
ReadCACertsUnchecked ==
  /\ pc = "L82"
  /\ log' = Append(log, Event("ReadAll", 0))
  /\ caCerts' = ReadAll(caCerts).reader
  /\ pemCerts' = ReadAll(caCerts).data
  /\ pc' = "L86"
  /\ UNCHANGED <<result, certpool, cert, opts, i>>
  /\ UNCHANGED <<d, options, entry, idres, first, last>>

\* lines 82-85: pemCerts, err := ioutil.ReadAll(caCerts)
ReadCACerts ==
  /\ pc = "L82"
  /\ log' = Append(log, Event("ReadAll", 0))
  /\ caCerts' = ReadAll(caCerts).reader
  /\ IF ReadAll(caCerts).err # Nil
     THEN Return(<<>>, Errorf(<<"iothub: failed to read CA certs: ", "%v">>,
                              <<ReadAll(caCerts).err.msg>>))
     ELSE /\ pemCerts' = ReadAll(caCerts).data
          /\ pc' = "L86"
          /\ UNCHANGED <<result, certpool, cert, opts, i>>
  /\ UNCHANGED <<d, options, entry, idres, first, last>>

\* AppendCerts without the check of AppendCertsFromPEM's result at line 87.
AppendCertsUnchecked ==
  /\ pc = "L86"
  /\ log' = Append(log, Event("AppendCertsFromPEM", 0))
  /\ certpool' = AppendCertsFromPEM(<<>>, pemCerts).pool
  /\ pc' = "L92"
  /\ UNCHANGED <<result, pemCerts, cert, opts, i>>
  /\ UNCHANGED <<d, caCerts, options, entry, idres, first, last>>

\* lines 86-89: certpool := x509.NewCertPool(); certpool.AppendCertsFromPEM(pemCerts)
AppendCerts ==
  /\ pc = "L86"
  /\ log' = Append(log, Event("AppendCertsFromPEM", 0))
  /\ IF ~AppendCertsFromPEM(<<>>, pemCerts).ok
     THEN Return(<<>>, Errorf(<<"iothub: no certs were parsed from given CA certs">>, <<>>))
     ELSE /\ certpool' = AppendCertsFromPEM(<<>>, pemCerts).pool
          /\ pc' = "L92"
          /\ UNCHANGED <<result, pemCerts, cert, opts, i>>
  /\ UNCHANGED <<d, caCerts, options, entry, idres, first, last>>

\* LoadKeyPair returning the error of tls.LoadX509KeyPair as it is.
LoadKeyPairUnwrapped ==
  /\ pc = "L92"
  /\ log' = Append(log, Event("LoadX509KeyPair", 0))
  /\ IF LoadX509KeyPair(d.CertPath, d.PrivKeyPath).err # Nil
     THEN Return(<<>>, LoadX509KeyPair(d.CertPath, d.PrivKeyPath).err)
     ELSE /\ cert' = LoadX509KeyPair(d.CertPath, d.PrivKeyPath).cert
          /\ pc' = "L97"
          /\ UNCHANGED <<result, pemCerts, certpool, opts, i>>
  /\ UNCHANGED <<d, caCerts, options, entry, idres, first, last>>

\* lines 92-95: cert, err := tls.LoadX509KeyPair(d.CertPath, d.PrivKeyPath)
LoadKeyPair ==
  /\ pc = "L92"
  /\ log' = Append(log, Event("LoadX509KeyPair", 0))
  /\ IF LoadX509KeyPair(d.CertPath, d.PrivKeyPath).err # Nil
     THEN Return(<<>>, ErrorfW(<<"iothub: failed to load x509 key pair: ", "%w">>,
                               LoadX509KeyPair(d.CertPath, d.PrivKeyPath).err))
     ELSE /\ cert' = LoadX509KeyPair(d.CertPath, d.PrivKeyPath).cert
          /\ pc' = "L97"
          /\ UNCHANGED <<result, pemCerts, certpool, opts, i>>
  /\ UNCHANGED <<d, caCerts, options, entry, idres, first, last>>

TLSConfig(pool, c) ==
  [RootCAs |-> pool, ClientAuth |-> "RequireAndVerifyClientCert",
   Certificates |-> <<c>>, MinVersion |-> "VersionTLS12"]

\* lines 104-111: the options with the four defaults set on them.
DefaultOptions(dev, tlsConf) ==
  SetTLSConfig(
    SetUsername(
      SetClientID(
        AddBroker(NewClientOptions, URL(Broker(dev))),
        ClientID(dev)),
      Username(dev)),
    tlsConf)

\* lines 97-111: tlsConf, broker, opts and its defaults.
SetDefaults ==
  /\ pc = "L97"
  /\ log' = Append(log, Event("SetDefaults", 0))
  /\ opts' = <<DefaultOptions(d, TLSConfig(certpool, cert[1]))>>
  /\ i' = 1
  /\ pc' = "L113"
  /\ UNCHANGED <<d, caCerts, options, pemCerts, certpool, cert, result, entry, idres,
                 first, last>>

\* RunOption going on to the next option when one fails.
RunOptionIgnoringError ==
  /\ pc = "L113"
  /\ i <= Len(options)
  /\ log' = Append(log, Event("option", i))
  /\ d' = ApplyOption(options[i], d, opts[1]).d
  /\ opts' = <<ApplyOption(options[i], d, opts[1]).opts>>
  /\ i' = i + 1
  /\ UNCHANGED <<pc, result, pemCerts, certpool, cert>>
  /\ UNCHANGED <<caCerts, options, entry, idres, first, last>>

\* RunOption returning the client built so far together with the option's error.
RunOptionReturningClient ==
  /\ pc = "L113"
  /\ i <= Len(options)
  /\ log' = Append(log, Event("option", i))
  /\ d' = ApplyOption(options[i], d, opts[1]).d
  /\ IF ApplyOption(options[i], d, opts[1]).err # Nil
     THEN Return(<<MqttNewClient(opts[1])>>, ApplyOption(options[i], d, opts[1]).err)
     ELSE /\ opts' = <<ApplyOption(options[i], d, opts[1]).opts>>
          /\ i' = i + 1
          /\ UNCHANGED <<pc, result, pemCerts, certpool, cert>>
  /\ UNCHANGED <<caCerts, options, entry, idres, first, last>>

\* lines 113-117: one turn of the loop over options.
RunOption ==
  /\ pc = "L113"
  /\ i <= Len(options)
  /\ log' = Append(log, Event("option", i))
  /\ d' = ApplyOption(options[i], d, opts[1]).d
  /\ IF ApplyOption(options[i], d, opts[1]).err # Nil
     THEN Return(<<>>, ApplyOption(options[i], d, opts[1]).err)
     ELSE /\ opts' = <<ApplyOption(options[i], d, opts[1]).opts>>
          /\ i' = i + 1
          /\ UNCHANGED <<pc, result, pemCerts, certpool, cert>>
  /\ UNCHANGED <<caCerts, options, entry, idres, first, last>>

\* line 119: return mqtt.NewClient(opts), nil
Build ==
  /\ pc = "L113"
  /\ i > Len(options)
  /\ log' = Append(log, Event("NewClient", 0))
  /\ Return(<<MqttNewClient(opts[1])>>, Nil)
  /\ UNCHANGED <<d, caCerts, options, entry, idres, first, last>>

(***************************************************************************)
(* Calls of DeviceIDFromCert and of the derivations                        *)
(***************************************************************************)
NoID == [certPath |-> "", id |-> "", err |-> Nil]

CallDeviceIDFromCert(certPath) ==
  /\ idres' = [certPath |-> certPath, id |-> DeviceIDFromCert(certPath).id,
               err |-> DeviceIDFromCert(certPath).err]
  /\ UNCHANGED <<d, caCerts, pc, options, i, pemCerts, certpool, cert, opts, log, result,
                 entry, first, last>>

NoCall == [op |-> "", val |-> "", host |-> "", port |-> 0]

\* The caller keeps what the call returned: the first call of the run in
\* first, every later one in last.
Keep(op, val, host, port) ==
  LET r == [op |-> op, val |-> val, host |-> host, port |-> port]
  IN IF first = NoCall
     THEN first' = r /\ last' = last
     ELSE last' = r /\ first' = first

DeriveFrame ==
  UNCHANGED <<d, caCerts, pc, options, i, pemCerts, certpool, cert, opts, log, result,
              entry, idres>>

\* ClientID filling the Device's ID from its certificate.
CallClientIDFilling ==
  /\ Keep("ClientID", ClientID(d), "", 0)
  /\ d' = [d EXCEPT !.DeviceID = DeviceIDFromCert(d.CertPath).id]
  /\ UNCHANGED <<caCerts, pc, options, i, pemCerts, certpool, cert, opts, log, result,
                 entry, idres>>

CallClientID == Keep("ClientID", ClientID(d), "", 0) /\ DeriveFrame

CallUsername == Keep("Username", Username(d), "", 0) /\ DeriveFrame

CallCommandTopic == Keep("CommandTopic", CommandTopic(d), "", 0) /\ DeriveFrame

CallTelemetryTopic == Keep("TelemetryTopic", TelemetryTopic(d), "", 0) /\ DeriveFrame

\* b := d.Broker(); b.String()
CallBroker == Keep("Broker", String(Broker(d)), Broker(d).Host, Broker(d).Port) /\ DeriveFrame

(***************************************************************************)
(* Specifications                                                          *)
(***************************************************************************)
Device(hub, id, certPath, privKeyPath) ==
  [HubName |-> hub, DeviceID |-> id, CertPath |-> certPath, PrivKeyPath |-> privKeyPath]

Reader(data, fails) == [data |-> data, fails |-> fails]

RootG2 == Block("CERTIFICATE", CertDER("DigiCert Global Root G2", "g2"))

\* The readers a caller may hand in: a bundle with a usable root, an empty
\* stream, a stream with no usable certificate, and streams whose Read fails.
Readers ==
  {Reader(<<Block("CERTIFICATE", JunkDER), RootG2>>, FALSE),
   Reader(<<>>, FALSE),
   Reader(<<Block("RSA PRIVATE KEY", KeyDER("k1")), Block("CERTIFICATE", JunkDER)>>, FALSE),
   Reader(<<RootG2>>, TRUE),
   Reader(<<>>, TRUE)}

KeyPairPaths ==
  {<<"my-device.x509", "my-device.pem">>, <<"bundle.pem", "bundle.pem">>,
   <<"other.x509", "my-device.pem">>, <<"missing.pem", "my-device.pem">>,
   <<"my-device.x509", "locked.pem">>, <<"notes.txt", "my-device.pem">>,
   <<"junk.pem", "my-device.pem">>, <<"my-device.x509", "other.x509">>,
   <<"locked.pem", "my-device.pem">>, <<"my-device.x509", "missing.pem">>}

Devices == {Device("my-hub", "my-device", kp[1], kp[2]) : kp \in KeyPairPaths}

InitRest ==
  /\ pc = "idle"
  /\ options = <<>>
  /\ i = 0
  /\ pemCerts = <<>>
  /\ certpool = <<>>
  /\ cert = <<>>
  /\ opts = <<>>
  /\ log = <<>>
  /\ result = NoResult
  /\ entry = [d |-> d, caCerts |-> caCerts]
  /\ idres = NoID
  /\ first = NoCall
  /\ last = NoCall

Init ==
  /\ d \in Devices
  /\ caCerts \in Readers
  /\ InitRest

Next ==
  \/ \E os \in OptionLists : NewClientCall(os)
  \/ ReadCACerts
  \/ AppendCerts
  \/ LoadKeyPair
  \/ SetDefaults
  \/ RunOption
  \/ Build
  \/ \E p \in Paths : CallDeviceIDFromCert(p)

Spec == Init /\ [][Next]_vars

\* The derivations called at any moment of a NewClient call without options.
DeriveDevices ==
  {Device(hub, id, kp[1], kp[2]) :
     hub \in {"myhub", "my-hub"}, id \in {"foo", "dev-1"},
     kp \in {<<"my-device.x509", "my-device.pem">>, <<"other.x509", "my-device.pem">>}}

InitDerive ==
  /\ d \in DeriveDevices
  /\ caCerts \in {Reader(<<RootG2>>, FALSE), Reader(<<>>, FALSE)}
  /\ InitRest

NextDerive ==
  \/ NewClientCall(<<>>)
  \/ ReadCACerts
  \/ AppendCerts
  \/ LoadKeyPair
  \/ SetDefaults
  \/ Build
  \/ CallClientID
  \/ CallUsername
  \/ CallCommandTopic
  \/ CallTelemetryTopic
  \/ CallBroker

SpecDerive == InitDerive /\ [][NextDerive]_vars

(***************************************************************************)
(* Vocabulary of the claims                                                *)
(***************************************************************************)
\* The error kinds of the specification, by the place of the source that
\* makes the error; every other error is of none of the four kinds.
Kind(err) ==
  CASE err = Nil -> "nil"
    [] err.fmt = "iothub: cert file does not exist: %v" -> "NotFound"
    [] err.fmt = "iothub: failed to decode PEM certificate" -> "DecodeError"
    [] err.fmt = "x509: malformed certificate" -> "ParseError"
    [] err.fmt = "iothub: no certs were parsed from given CA certs" -> "ConfigError"
    [] err.fmt = "iothub: failed to load x509 key pair: %w" -> "ConfigError"
    [] OTHER -> "Other"

FourKinds == {"NotFound", "DecodeError", "ParseError", "ConfigError"}

Kept == {first, last}

BrokerURLOf(dev) == "tls://" \o dev.HubName \o ".azure-devices.net:8883"

\* Some block of the stream is a certificate that parses.
RootsParse(r) ==
  \E k \in 1..Len(r.data) : r.data[k].Type = "CERTIFICATE" /\ r.data[k].Bytes.kind = "cert"

\* The files at CertPath and PrivKeyPath can be read and hold a certificate
\* and the private key that belongs to it.
PairUsable(dev) ==
  LET cf == files[dev.CertPath]
      kf == files[dev.PrivKeyPath]
      cs == SelectSeq(cf.blocks, IsCertificateBlock)
      ks == SelectSeq(kf.blocks, IsPrivateKeyBlock)
  IN /\ cf.exists /\ cf.readable /\ kf.exists /\ kf.readable
     /\ cs # <<>> /\ ks # <<>>
     /\ cs[1].Bytes.kind = "cert" /\ ks[1].Bytes.kind = "key"
     /\ cs[1].Bytes.key = ks[1].Bytes.key

Returned == pc = "returned"

Calls(name) == {k \in 1..Len(log) : log[k].call = name}

(***************************************************************************)
(* Identity and topic derivation (under SpecDerive)                        *)
(***************************************************************************)
\* C1: every Username() call returns HubName + ".azure-devices.net/" +
\* DeviceID and nothing more, which is Broker().Host + "/" + ClientID();
\* hub "myhub" and id "foo" give "myhub.azure-devices.net/foo".
C1_Username ==
  \A r \in Kept :
    r.op = "Username" =>
      /\ r.val = d.HubName \o ".azure-devices.net/" \o d.DeviceID
      /\ r.val = Broker(d).Host \o "/" \o ClientID(d)
      /\ (d.HubName = "myhub" /\ d.DeviceID = "foo" => r.val = "myhub.azure-devices.net/foo")

C1_Witness ==
  /\ last.op = "Username"
  /\ d.HubName = "myhub"
  /\ d.DeviceID = "foo"

\* C2: CommandTopic() is "/devices/" + DeviceID + "/messages/devicebound/#",
\* TelemetryTopic() is "/devices/" + DeviceID + "/messages/events", neither
\* changes with HubName, CertPath or PrivKeyPath, and ClientID() is DeviceID.
C2_Topics ==
  \A r \in Kept :
    /\ r.op = "CommandTopic" =>
         /\ r.val = "/devices/" \o d.DeviceID \o "/messages/devicebound/#"
         /\ \A e \in DeriveDevices : e.DeviceID = d.DeviceID => CommandTopic(e) = r.val
    /\ r.op = "TelemetryTopic" =>
         /\ r.val = "/devices/" \o d.DeviceID \o "/messages/events"
         /\ \A e \in DeriveDevices : e.DeviceID = d.DeviceID => TelemetryTopic(e) = r.val
    /\ r.op = "ClientID" => r.val = d.DeviceID

C2_Witness ==
  /\ first.op = "CommandTopic"
  /\ last.op = "TelemetryTopic"
  /\ d.DeviceID = "foo"

\* C3: Broker() has Host HubName + ".azure-devices.net" and Port 8883, its
\* URL()/String() is "tls://" + HubName + ".azure-devices.net:8883", and
\* that URL is the one broker address of the options NewClient sets up by
\* default and of the client built from them.
C3_Broker ==
  /\ \A r \in Kept :
       r.op = "Broker" =>
         /\ r.host = d.HubName \o ".azure-devices.net"
         /\ r.port = 8883
         /\ r.val = BrokerURLOf(d)
  /\ opts # <<>> => opts[1].Servers = <<BrokerURLOf(d)>>
  /\ result.client # <<>> => result.client[1].options.Servers = <<BrokerURLOf(d)>>

C3_Witness ==
  /\ last.op = "Broker"
  /\ result.client # <<>>

\* C9: no derivation call and no step of NewClient without options changes
\* a field of the Device, and a derivation called again returns what its
\* first call returned, whatever ran in between.
C9_Idempotent ==
  [][/\ d' = d
     /\ (last'.op = first'.op => /\ last'.val = first'.val
                                 /\ last'.host = first'.host
                                 /\ last'.port = first'.port)]_vars

C9_Witness ==
  /\ first.op = "Username"
  /\ last.op = "Username"
  /\ Returned

(***************************************************************************)
(* DeviceIDFromCert (under Spec)                                           *)
(***************************************************************************)
FirstBlockIsCertificate(f) == f.blocks # <<>> /\ f.blocks[1].Type = "CERTIFICATE"

\* C4 as claimed: absent file NotFound; otherwise no CERTIFICATE first block
\* DecodeError; otherwise a payload that is no certificate ParseError;
\* otherwise the common name; the identifier is empty on every failure.
C4_StagesAsClaimed ==
  idres.certPath # "" =>
    LET f == files[idres.certPath]
    IN /\ IF ~f.exists THEN Kind(idres.err) = "NotFound"
          ELSE IF ~FirstBlockIsCertificate(f) THEN Kind(idres.err) = "DecodeError"
          ELSE IF f.blocks[1].Bytes.kind # "cert" THEN Kind(idres.err) = "ParseError"
          ELSE idres.err = Nil /\ idres.id = f.blocks[1].Bytes.cn
       /\ (idres.err # Nil => idres.id = "")

\* C4 (amended): as claimed, with the stage the claim leaves out: a file
\* that exists but cannot be read fails with the read failure, of none of
\* the four kinds, whatever the file holds.
C4_Stages ==
  idres.certPath # "" =>
    LET f == files[idres.certPath]
    IN /\ IF ~f.exists THEN Kind(idres.err) = "NotFound"
          ELSE IF ~f.readable
               THEN /\ idres.err.fmt = "iothub: failed to read cert: %v"
                    /\ Kind(idres.err) \notin FourKinds
          ELSE IF ~FirstBlockIsCertificate(f) THEN Kind(idres.err) = "DecodeError"
          ELSE IF f.blocks[1].Bytes.kind # "cert" THEN Kind(idres.err) = "ParseError"
          ELSE idres.err = Nil /\ idres.id = f.blocks[1].Bytes.cn
       /\ (idres.err # Nil => idres.id = "")

C4_Witness ==
  /\ idres.certPath = "locked.pem"
  /\ idres.err # Nil
  /\ FirstBlockIsCertificate(files["locked.pem"])

(***************************************************************************)
(* NewClient (under Spec)                                                  *)
(***************************************************************************)
\* C5 as claimed: with no certificate to parse from the stream, or with an
\* unusable key pair, NewClient returns no client and a ConfigError.
C5_AsClaimed ==
  Returned /\ (~RootsParse(entry.caCerts) \/ ~PairUsable(entry.d)) =>
    /\ result.client = <<>>
    /\ Kind(result.err) = "ConfigError"

\* C5 (amended): in those cases NewClient returns no client and an error,
\* whatever the options; the error is a ConfigError when the stream was
\* read to its end, and the read failure when reading the stream failed.
C5_ConfigError ==
  Returned /\ (~RootsParse(entry.caCerts) \/ ~PairUsable(entry.d)) =>
    /\ result.client = <<>>
    /\ result.err # Nil
    /\ IF entry.caCerts.fails
       THEN result.err.fmt = "iothub: failed to read CA certs: %v"
       ELSE Kind(result.err) = "ConfigError"

C5_Witness ==
  /\ Returned
  /\ ~entry.caCerts.fails
  /\ RootsParse(entry.caCerts)
  /\ entry.d.CertPath = "other.x509"
  /\ ~PairUsable(entry.d)
  /\ options # <<>>
  /\ Kind(result.err) = "ConfigError"

\* The Device and the options after the option functions os, run in order
\* on dev and o.
RECURSIVE RunAll(_, _, _)
RunAll(os, dev, o) ==
  IF os = <<>> THEN [d |-> dev, opts |-> o]
  ELSE RunAll(Tail(os), ApplyOption(Head(os), dev, o).d, ApplyOption(Head(os), dev, o).opts)

\* C6: the options are invoked in the order given, each once, after the
\* four defaults are set; each finds the defaults as changed by the options
\* before it; the first that fails ends the call with its error, no later
\* option invoked and no client built; the client is built from the options
\* as the last option left them.
C6_Options ==
  LET ran == SelectSeq(log, LAMBDA e : e.call = "option")
      defaults == DefaultOptions(entry.d, TLSConfig(certpool, cert[1]))
  IN /\ \A k \in 1..Len(ran) : ran[k].arg = k
     /\ Len(ran) <= Len(options)
     /\ \A k \in Calls("option") : \E j \in Calls("SetDefaults") : j < k
     /\ \A k \in Calls("NewClient") : \A j \in Calls("option") : j < k
     /\ pc = "L113" =>
          /\ Len(ran) = i - 1
          /\ opts[1] = RunAll(SubSeq(options, 1, i - 1), entry.d, defaults).opts
          /\ d = RunAll(SubSeq(options, 1, i - 1), entry.d, defaults).d
          /\ (i = 1 => /\ opts[1].Servers = <<BrokerURLOf(entry.d)>>
                       /\ opts[1].ClientID = entry.d.DeviceID
                       /\ opts[1].Username = Username(entry.d)
                       /\ opts[1].TLSConfig # <<>>)
     /\ Returned /\ ran # <<>> /\ result.err # Nil =>
          /\ options[Len(ran)] = "Fail"
          /\ \A k \in 1..(Len(ran) - 1) : options[k] # "Fail"
          /\ result.err.fmt = "option failed"
          /\ result.client = <<>>
          /\ Calls("NewClient") = {}
     /\ Returned /\ result.client # <<>> =>
          /\ Len(ran) = Len(options)
          /\ \A k \in 1..Len(options) : options[k] # "Fail"
          /\ Cardinality(Calls("NewClient")) = 1
          /\ result.client[1].options =
               RunAll(options, entry.d,
                      DefaultOptions(entry.d,
                        TLSConfig(AppendCertsFromPEM(<<>>, entry.caCerts.data).pool,
                                  LoadX509KeyPair(entry.d.CertPath,
                                                  entry.d.PrivKeyPath).cert[1]))).opts

C6_Witness ==
  /\ Returned
  /\ options = <<"SetUsername", "AppendAPIVersion">>
  /\ result.client # <<>>
  /\ result.client[1].options.Username = "override/?api-version=2021-04-12"

\* The call has no local left: what it created is out of the caller's reach.
LocalsGone ==
  /\ pemCerts = <<>>
  /\ certpool = <<>>
  /\ cert = <<>>
  /\ opts = <<>>

ExactlyOne == (result.client # <<>>) # (result.err # Nil)

C8_AsClaimed ==
  /\ idres.err # Nil => Kind(idres.err) \in FourKinds
  /\ Returned /\ result.err # Nil => Kind(result.err) \in FourKinds

\* C8 (amended): NotFound, DecodeError and ParseError come from
\* DeviceIDFromCert alone and ConfigError from NewClient alone; a file that
\* exists but cannot be read, a failing read of the stream and a failing
\* option give an error of none of the four kinds (the option's error is
\* returned as it is); a missing or unreadable key-pair file in NewClient is
\* a ConfigError that wraps the cause.
C8_ErrorKinds ==
  /\ idres.err # Nil =>
       LET f == files[idres.certPath]
       IN /\ Kind(idres.err) \in {"NotFound", "DecodeError", "ParseError", "Other"}
          /\ Kind(idres.err) = "NotFound" <=> ~f.exists
          /\ Kind(idres.err) = "Other" <=>
               (f.exists /\ ~f.readable /\ idres.err.fmt = "iothub: failed to read cert: %v")
  /\ Returned /\ result.err # Nil =>
       /\ Kind(result.err) \in {"ConfigError", "Other"}
       /\ Kind(result.err) = "Other" <=>
            \/ entry.caCerts.fails /\ result.err.fmt = "iothub: failed to read CA certs: %v"
            \/ Calls("option") # {} /\ result.err = Errorf(<<"option failed">>, <<>>)
       /\ Kind(result.err) = "ConfigError" /\ Calls("LoadX509KeyPair") # {} =>
            /\ ~PairUsable(entry.d)
            /\ "fs.ErrNotExist" \in result.err.is <=>
                 LET cf == files[entry.d.CertPath]
                     kf == files[entry.d.PrivKeyPath]
                 IN ~cf.exists \/ (cf.readable /\ ~kf.exists)
            /\ "fs.ErrPermission" \in result.err.is <=>
                 LET cf == files[entry.d.CertPath]
                     kf == files[entry.d.PrivKeyPath]
                 IN (cf.exists /\ ~cf.readable) \/ (cf.readable /\ kf.exists /\ ~kf.readable)

C8_Witness ==
  /\ idres.certPath = "locked.pem"
  /\ Kind(idres.err) = "Other"
  /\ Returned
  /\ Kind(result.err) = "ConfigError"
  /\ "fs.ErrNotExist" \in result.err.is

\* The calls of a NewClient call that runs to its end with options os.
StepsOf(os) ==
  <<Event("ReadAll", 0), Event("AppendCertsFromPEM", 0), Event("LoadX509KeyPair", 0),
    Event("SetDefaults", 0)>>
  \o [k \in 1..Len(os) |-> Event("option", k)]
  \o <<Event("NewClient", 0)>>

\* The number of steps a call entered with e and os takes: up to and
\* including the first step that fails.
StepsTaken(e, os) ==
  IF e.caCerts.fails THEN 1
  ELSE IF ~RootsParse(e.caCerts) THEN 2
  ELSE IF ~PairUsable(e.d) THEN 3
  ELSE IF \E k \in 1..Len(os) : os[k] = "Fail"
       THEN 4 + (CHOOSE k \in 1..Len(os) : os[k] = "Fail" /\ \A j \in 1..(k - 1) : os[j] # "Fail")
  ELSE Len(os) + 5

\* C10: NewClient reads the stream to its end, parses the roots, loads the
\* key pair, sets the defaults, runs the options and builds the client, in
\* that order, and stops at the first step that fails: with bad roots the
\* error is the roots' and the key pair is not loaded, and with bad roots or
\* a bad key pair no option is invoked.
C10_Order ==
  /\ Len(log) <= Len(StepsOf(options))
  /\ log = SubSeq(StepsOf(options), 1, Len(log))
  /\ Len(log) <= StepsTaken(entry, options)
  /\ Returned => Len(log) = StepsTaken(entry, options)
  /\ Calls("AppendCertsFromPEM") # {} => caCerts.data = <<>>
  /\ Returned /\ (entry.caCerts.fails \/ ~RootsParse(entry.caCerts)) =>
       /\ result.err.fmt \in {"iothub: failed to read CA certs: %v",
                              "iothub: no certs were parsed from given CA certs"}
       /\ Calls("LoadX509KeyPair") = {}
  /\ (entry.caCerts.fails \/ ~RootsParse(entry.caCerts) \/ ~PairUsable(entry.d)) /\ pc # "idle" =>
       Calls("option") = {} /\ Calls("SetDefaults") = {}

C10_Witness ==
  /\ Returned
  /\ ~entry.caCerts.fails
  /\ ~RootsParse(entry.caCerts)
  /\ ~PairUsable(entry.d)
  /\ options # <<>>
  /\ result.err.fmt = "iothub: no certs were parsed from given CA certs"

====
